---- MODULE Spec2Model ----
(***************************************************************************)
(* Model of generateur_ORASP.py, the random instance generator of the      *)
(* operating-room scheduling model.                                         *)
(*                                                                          *)
(* Every function of the script is modelled as a small sequential machine: *)
(* `call' names the function that is running, `pc' its position, `frame'   *)
(* its parameters and local variables, `ret' its return value.  Init       *)
(* starts one call with arguments drawn from bounded sets; the module      *)
(* level flags and counts are the remaining variables.                     *)
(*                                                                          *)
(* Python lists are sequences (list index i is sequence index i + 1).      *)
(* A text is the sequence of its lines; a line is a record [name, value]   *)
(* for the statement "NAME = <value>; \n" and BlankLine for "\n".          *)
(* A probability is the numerator of a fraction over ProbDenom, and a      *)
(* draw of random.uniform(0, 1), a + (b - a) * random() with random() in   *)
(* [0, 1), is a numerator in 0 .. ProbDenom - 1.  Counts of rooms and       *)
(* surgeons start at 1: with no surgeon the modulo of line 72 raises, and   *)
(* with no room a row of the room matrix is empty.                          *)
(***************************************************************************)
EXTENDS Integers, Sequences, FiniteSets, TLC

VARIABLES
    nb_operations,            \* module level parameters
    nb_surgeons,
    nb_rooms,
    enable_setup_times,
    enable_surgeon_schedule,
    all_rooms_available,
    call,                     \* the function that was called
    pc,                       \* its position
    frame,                    \* its parameters and locals
    ret,                      \* its return value (None before it returns)
    raised,                   \* the exception that left it (None if none)
    fs_dirs,                  \* file system: the directories that exist
    fs_files,                 \* file system: file name -> content
    io_log,                   \* file system and console calls, in order
    uniform_calls,            \* number of random.uniform calls made
    forced_rows               \* rows whose last room took the forced branch

vars == <<nb_operations, nb_surgeons, nb_rooms, enable_setup_times,
          enable_surgeon_schedule, all_rooms_available, call, pc, frame, ret,
          raised, fs_dirs, fs_files, io_log, uniform_calls, forced_rows>>

globals == <<nb_operations, nb_surgeons, nb_rooms, enable_setup_times,
             enable_surgeon_schedule, all_rooms_available>>

world == <<fs_dirs, fs_files, io_log>>

-----------------------------------------------------------------------------
(* Bounds of the model *)

MaxOperations == 3
MaxSurgeons == 2
MaxRooms == 2
ProbDenom == 2
MaxTypes == 2
MaxSetupTime == 1
MaxDurationOperations == 1
MaxLognormal == 1
MaxInstances == 2

None == "None"
BlankLine == [name |-> "", value |-> <<>>]
Statement(name, value) == [name |-> name, value |-> value]

Range(n) == [k \in 1..n |-> k - 1]

PyIndex(list, i) == IF i < 0 THEN list[Len(list) + i + 1] ELSE list[i + 1]

Names(text) == [k \in DOMAIN text |-> text[k].name]

RECURSIVE Sum(_)
Sum(list) == IF list = <<>> THEN 0 ELSE Head(list) + Sum(Tail(list))

-----------------------------------------------------------------------------
(* generate_room_availability(nb_operations, nb_rooms, probability) *)

UniformDraws == 0..(ProbDenom - 1)

ForcedLastRoomOffByOne(r, rooms, only_zeros) == r = rooms /\ only_zeros

ForcedLastRoom(r, rooms, only_zeros) == r = rooms - 1 /\ only_zeros

ProbabilityFlagIgnored(probability) == probability

EffectiveProbability(probability) ==
    IF all_rooms_available THEN ProbDenom ELSE probability

RoomAvailabilityText(matrix) == <<Statement("A", matrix)>>

CallRoomAvailability ==
    /\ call = "generate_room_availability"
    /\ nb_operations \in 0..MaxOperations
    /\ nb_surgeons = 1
    /\ nb_rooms \in 1..MaxRooms
    /\ enable_setup_times = TRUE
    /\ enable_surgeon_schedule = FALSE
    /\ all_rooms_available \in BOOLEAN
    /\ \E p \in 0..ProbDenom :
          frame = [nb_operations |-> nb_operations, nb_rooms |-> nb_rooms,
                   probability |-> p, matrix |-> <<>>, o |-> 0, r |-> 0,
                   row |-> <<>>, only_zeros |-> TRUE]
    /\ pc = "room_start"

RoomStart ==
    /\ call = "generate_room_availability" /\ pc = "room_start"
    /\ frame' = [frame EXCEPT !.probability = EffectiveProbability(@)]
    /\ pc' = "room_for_o"
    /\ UNCHANGED <<globals, call, ret, raised, world, uniform_calls, forced_rows>>

RoomNextRow ==
    /\ call = "generate_room_availability" /\ pc = "room_for_o"
    /\ frame.o < frame.nb_operations
    /\ frame' = [frame EXCEPT !.row = <<>>, !.only_zeros = TRUE, !.r = 0]
    /\ pc' = "room_for_r"
    /\ UNCHANGED <<globals, call, ret, raised, world, uniform_calls, forced_rows>>

RoomForced ==
    /\ call = "generate_room_availability" /\ pc = "room_for_r"
    /\ frame.r < frame.nb_rooms
    /\ ForcedLastRoom(frame.r, frame.nb_rooms, frame.only_zeros)
    /\ frame' = [frame EXCEPT !.row = Append(@, 1), !.r = @ + 1]
    /\ forced_rows' = forced_rows \cup {frame.o}
    /\ UNCHANGED <<globals, call, pc, ret, raised, world, uniform_calls>>

RoomTrial ==
    /\ call = "generate_room_availability" /\ pc = "room_for_r"
    /\ frame.r < frame.nb_rooms
    /\ ~ForcedLastRoom(frame.r, frame.nb_rooms, frame.only_zeros)
    /\ \E u \in UniformDraws :
          IF u < frame.probability
          THEN frame' = [frame EXCEPT !.row = Append(@, 1),
                                      !.only_zeros = FALSE, !.r = @ + 1]
          ELSE frame' = [frame EXCEPT !.row = Append(@, 0), !.r = @ + 1]
    /\ uniform_calls' = uniform_calls + 1
    /\ UNCHANGED <<globals, call, pc, ret, raised, world, forced_rows>>

RoomAppendRow ==
    /\ call = "generate_room_availability" /\ pc = "room_for_r"
    /\ frame.r >= frame.nb_rooms
    /\ frame' = [frame EXCEPT !.matrix = Append(@, frame.row), !.o = @ + 1]
    /\ pc' = "room_for_o"
    /\ UNCHANGED <<globals, call, ret, raised, world, uniform_calls, forced_rows>>

RoomReturn ==
    /\ call = "generate_room_availability" /\ pc = "room_for_o"
    /\ frame.o >= frame.nb_operations
    /\ ret' = RoomAvailabilityText(frame.matrix)
    /\ pc' = "done"
    /\ UNCHANGED <<globals, call, frame, raised, world, uniform_calls, forced_rows>>

generate_room_availability ==
    \/ RoomStart
    \/ RoomNextRow
    \/ RoomForced
    \/ RoomTrial
    \/ RoomAppendRow
    \/ RoomReturn

-----------------------------------------------------------------------------
(* generate_surgeon_eligibility(nb_surgeons, nb_operations) *)

EligibilityEntry(c, current_surgeon) == IF c = current_surgeon THEN 1 ELSE 0

CurrentSurgeonShifted(o, surgeons) == (o + 1) % surgeons

CurrentSurgeon(o, surgeons) == o % surgeons

AppendOperation(matrix, o, surgeons) ==
    [k \in 1..surgeons |->
        Append(matrix[k], EligibilityEntry(k - 1, CurrentSurgeon(o, surgeons)))]

RECURSIVE EligibilityLoop(_, _, _, _)
EligibilityLoop(matrix, o, surgeons, operations) ==
    IF o >= operations
    THEN matrix
    ELSE EligibilityLoop(AppendOperation(matrix, o, surgeons), o + 1,
                         surgeons, operations)

SurgeonEligibilityMatrix(surgeons, operations) ==
    EligibilityLoop([k \in 1..surgeons |-> <<>>], 0, surgeons, operations)

SurgeonEligibilityText(matrix) == <<Statement("X", matrix)>>

CallSurgeonEligibility ==
    /\ call = "generate_surgeon_eligibility"
    /\ nb_operations \in 0..MaxOperations
    /\ nb_surgeons \in 1..MaxSurgeons
    /\ nb_rooms = 1
    /\ enable_setup_times = TRUE
    /\ enable_surgeon_schedule = FALSE
    /\ all_rooms_available = FALSE
    /\ frame = [nb_surgeons |-> nb_surgeons, nb_operations |-> nb_operations]
    /\ pc = "eligibility_start"

generate_surgeon_eligibility ==
    /\ call = "generate_surgeon_eligibility" /\ pc = "eligibility_start"
    /\ LET matrix == SurgeonEligibilityMatrix(frame.nb_surgeons,
                                              frame.nb_operations)
       IN  ret' = <<matrix, SurgeonEligibilityText(matrix)>>
    /\ pc' = "done"
    /\ UNCHANGED <<globals, call, frame, raised, world, uniform_calls, forced_rows>>

-----------------------------------------------------------------------------
(* generate_surgeon_time_windows(nb_surgeons) *)

UnrestrictedDay == 10000
RestrictedDay == 800
FullDayShift == 2

ShiftTypesUnpinned == 0..FullDayShift

ShiftTypes == FullDayShift..FullDayShift

MaxTime == IF enable_surgeon_schedule THEN RestrictedDay ELSE UnrestrictedDay

WindowStart(shift_type, max_time) ==
    CASE shift_type = 0 -> <<0>>
      [] shift_type = 1 -> <<max_time \div 2>>
      [] shift_type = 2 -> <<0>>
      [] OTHER -> <<>>

WindowEnd(shift_type, max_time) ==
    CASE shift_type = 0 -> <<max_time \div 2>>
      [] shift_type = 1 -> <<max_time>>
      [] shift_type = 2 -> <<max_time>>
      [] OTHER -> <<>>

TimeWindowsText(F, G) == <<Statement("F", F), Statement("G", G)>>

CallSurgeonTimeWindows ==
    /\ call = "generate_surgeon_time_windows"
    /\ nb_operations = 0
    /\ nb_surgeons \in 1..MaxSurgeons
    /\ nb_rooms = 1
    /\ enable_setup_times = TRUE
    /\ enable_surgeon_schedule \in BOOLEAN
    /\ all_rooms_available = FALSE
    /\ frame = [nb_surgeons |-> nb_surgeons, max_time |-> None, F |-> <<>>,
                G |-> <<>>, k |-> 0, shift_types |-> <<>>]
    /\ pc = "windows_start"

WindowsStart ==
    /\ call = "generate_surgeon_time_windows" /\ pc = "windows_start"
    /\ frame' = [frame EXCEPT !.max_time = MaxTime]
    /\ pc' = "windows_for"
    /\ UNCHANGED <<globals, call, ret, raised, world, uniform_calls, forced_rows>>

WindowsNextSurgeon ==
    /\ call = "generate_surgeon_time_windows" /\ pc = "windows_for"
    /\ frame.k < frame.nb_surgeons
    /\ \E shift_type \in ShiftTypes :
          frame' = [frame EXCEPT
                       !.F = @ \o WindowStart(shift_type, frame.max_time),
                       !.G = @ \o WindowEnd(shift_type, frame.max_time),
                       !.shift_types = Append(@, shift_type),
                       !.k = @ + 1]
    /\ UNCHANGED <<globals, call, pc, ret, raised, world, uniform_calls, forced_rows>>

WindowsReturn ==
    /\ call = "generate_surgeon_time_windows" /\ pc = "windows_for"
    /\ frame.k >= frame.nb_surgeons
    /\ ret' = TimeWindowsText(frame.F, frame.G)
    /\ pc' = "done"
    /\ UNCHANGED <<globals, call, frame, raised, world, uniform_calls, forced_rows>>

generate_surgeon_time_windows ==
    \/ WindowsStart
    \/ WindowsNextSurgeon
    \/ WindowsReturn

-----------------------------------------------------------------------------
(* generate_types_and_setup_times(nb_operations, eligibility_matrix,       *)
(*                                max_setup_time, nb_types)                 *)

TypeDraws(nb_types) == 0..(nb_types - 1)

SetupDraws(max_setup_time) == 0..max_setup_time

\* The first surgeon, in ascending order, eligible for operation o; -1 if none.
RECURSIVE FirstEligible(_, _, _)
FirstEligible(eligibility_matrix, o, c) ==
    IF c >= Len(eligibility_matrix)
    THEN -1
    ELSE IF PyIndex(PyIndex(eligibility_matrix, c), o) = 1
         THEN c
         ELSE FirstEligible(eligibility_matrix, o, c + 1)

NoTransitionDrawConjoined(t1, t2) == t1 = t2 /\ ~enable_setup_times

NoTransitionDraw(t1, t2) == t1 = t2 \/ ~enable_setup_times

TransitionLookupSwapped(type_transition_time, t1, t2) ==
    PyIndex(PyIndex(type_transition_time, t2), t1)

TransitionLookup(type_transition_time, t1, t2) ==
    PyIndex(PyIndex(type_transition_time, t1), t2)

SetupRow(type_by_operation, type_transition_time, o1) ==
    [k \in 1..Len(type_by_operation) |->
        TransitionLookup(type_transition_time,
                         PyIndex(type_by_operation, o1),
                         PyIndex(type_by_operation, k - 1))]

TypesText(T, TD) == <<Statement("T", T), Statement("TD", TD)>>

CallTypesAndSetupTimes ==
    /\ call = "generate_types_and_setup_times"
    /\ nb_operations \in 0..MaxOperations
    /\ nb_surgeons \in 1..MaxSurgeons
    /\ nb_rooms = 1
    /\ enable_setup_times \in BOOLEAN
    /\ enable_surgeon_schedule = FALSE
    /\ all_rooms_available = FALSE
    /\ \E max_setup_time \in 0..MaxSetupTime, nb_types \in 1..MaxTypes :
          frame = [nb_operations |-> nb_operations,
                   eligibility_matrix |->
                       SurgeonEligibilityMatrix(nb_surgeons, nb_operations),
                   max_setup_time |-> max_setup_time, nb_types |-> nb_types,
                   nb_surgeons |-> None, type_by_surgeon |-> <<>>,
                   T |-> <<>>, type_by_operation |-> <<>>, o |-> 0,
                   type_transition_time |-> <<>>, t1 |-> 0, t2 |-> 0,
                   TD |-> <<>>, o1 |-> 0]
    /\ pc = "types_start"

TypesStart ==
    /\ call = "generate_types_and_setup_times" /\ pc = "types_start"
    /\ frame' = [frame EXCEPT !.nb_surgeons = Len(frame.eligibility_matrix)]
    /\ pc' = "types_by_surgeon"
    /\ UNCHANGED <<globals, call, ret, raised, world, uniform_calls, forced_rows>>

TypesDrawSurgeon ==
    /\ call = "generate_types_and_setup_times" /\ pc = "types_by_surgeon"
    /\ Len(frame.type_by_surgeon) < frame.nb_surgeons
    /\ \E t \in TypeDraws(frame.nb_types) :
          frame' = [frame EXCEPT !.type_by_surgeon = Append(@, t)]
    /\ UNCHANGED <<globals, call, pc, ret, raised, world, uniform_calls, forced_rows>>

TypesInitOperations ==
    /\ call = "generate_types_and_setup_times" /\ pc = "types_by_surgeon"
    /\ Len(frame.type_by_surgeon) >= frame.nb_surgeons
    /\ frame' = [frame EXCEPT
                    !.T = [o \in 1..frame.nb_operations |->
                              [t \in 1..frame.nb_types |-> 0]],
                    !.type_by_operation = [o \in 1..frame.nb_operations |-> -1],
                    !.o = 0]
    /\ pc' = "types_for_o"
    /\ UNCHANGED <<globals, call, ret, raised, world, uniform_calls, forced_rows>>

TypesAssignOperation ==
    /\ call = "generate_types_and_setup_times" /\ pc = "types_for_o"
    /\ frame.o < frame.nb_operations
    /\ LET c == FirstEligible(frame.eligibility_matrix, frame.o, 0)
           t == PyIndex(frame.type_by_surgeon, c)
       IN  IF c >= 0
           THEN frame' = [frame EXCEPT !.T[frame.o + 1][t + 1] = 1,
                                       !.type_by_operation[frame.o + 1] = t,
                                       !.o = @ + 1]
           ELSE frame' = [frame EXCEPT !.o = @ + 1]
    /\ UNCHANGED <<globals, call, pc, ret, raised, world, uniform_calls, forced_rows>>

TypesStartTransitions ==
    /\ call = "generate_types_and_setup_times" /\ pc = "types_for_o"
    /\ frame.o >= frame.nb_operations
    /\ frame' = [frame EXCEPT !.type_transition_time = <<<<>>>>,
                              !.t1 = 0, !.t2 = 0]
    /\ pc' = "types_transition"
    /\ UNCHANGED <<globals, call, ret, raised, world, uniform_calls, forced_rows>>

\* One entry of the nested comprehension, row t1 and column t2.
TypesTransitionEntry ==
    /\ call = "generate_types_and_setup_times" /\ pc = "types_transition"
    /\ frame.t2 < frame.nb_types
    /\ \E d \in SetupDraws(frame.max_setup_time) :
          LET v == IF NoTransitionDraw(frame.t1, frame.t2) THEN 0 ELSE d
          IN  frame' = [frame EXCEPT
                           !.type_transition_time[frame.t1 + 1] = Append(@, v),
                           !.t2 = @ + 1]
    /\ UNCHANGED <<globals, call, pc, ret, raised, world, uniform_calls, forced_rows>>

TypesTransitionNextRow ==
    /\ call = "generate_types_and_setup_times" /\ pc = "types_transition"
    /\ frame.t2 >= frame.nb_types
    /\ IF frame.t1 + 1 < frame.nb_types
       THEN /\ frame' = [frame EXCEPT !.type_transition_time = Append(@, <<>>),
                                      !.t1 = @ + 1, !.t2 = 0]
            /\ pc' = pc
       ELSE /\ frame' = [frame EXCEPT !.TD = <<>>, !.o1 = 0]
            /\ pc' = "types_build"
    /\ UNCHANGED <<globals, call, ret, raised, world, uniform_calls, forced_rows>>

TypesBuildRow ==
    /\ call = "generate_types_and_setup_times" /\ pc = "types_build"
    /\ frame.o1 < frame.nb_operations
    /\ frame' = [frame EXCEPT
                    !.TD = Append(@, SetupRow(frame.type_by_operation,
                                              frame.type_transition_time,
                                              frame.o1)),
                    !.o1 = @ + 1]
    /\ UNCHANGED <<globals, call, pc, ret, raised, world, uniform_calls, forced_rows>>

TypesReturn ==
    /\ call = "generate_types_and_setup_times" /\ pc = "types_build"
    /\ frame.o1 >= frame.nb_operations
    /\ ret' = TypesText(frame.T, frame.TD)
    /\ pc' = "done"
    /\ UNCHANGED <<globals, call, frame, raised, world, uniform_calls, forced_rows>>

generate_types_and_setup_times ==
    \/ TypesStart
    \/ TypesDrawSurgeon
    \/ TypesInitOperations
    \/ TypesAssignOperation
    \/ TypesStartTransitions
    \/ TypesTransitionEntry
    \/ TypesTransitionNextRow
    \/ TypesBuildRow
    \/ TypesReturn

-----------------------------------------------------------------------------
(* generate_operation_durations(nb_operations) *)

PrepDraws == 5..30

CleanDraws == 10..20

\* np.random.lognormal(4, 0.5) is a positive real x; LognormalDraws are the
\* values of its integer part, and int(x + 1) is that part plus one.
LognormalDraws == 0..MaxLognormal

Surgery(x) == x + 1

TotalWithoutCleaning(prep, surg, clean) == prep + surg

Total(prep, surg, clean) == prep + surg + clean

DurationsText(TP, TC, TN, TT) ==
    <<Statement("TP", TP), Statement("TC", TC), Statement("TN", TN),
      Statement("TT", TT)>>

CallOperationDurations ==
    /\ call = "generate_operation_durations"
    /\ nb_operations \in 0..MaxDurationOperations
    /\ nb_surgeons = 1
    /\ nb_rooms = 1
    /\ enable_setup_times = TRUE
    /\ enable_surgeon_schedule = FALSE
    /\ all_rooms_available = FALSE
    /\ frame = [nb_operations |-> nb_operations, TP |-> <<>>, TC |-> <<>>,
                TN |-> <<>>, TT |-> <<>>, k |-> 0]
    /\ pc = "durations_for"

DurationsNextOperation ==
    /\ call = "generate_operation_durations" /\ pc = "durations_for"
    /\ frame.k < frame.nb_operations
    /\ \E prep \in PrepDraws, x \in LognormalDraws, clean \in CleanDraws :
          LET surg == Surgery(x)
          IN  frame' = [frame EXCEPT !.TP = Append(@, prep),
                                     !.TC = Append(@, surg),
                                     !.TN = Append(@, clean),
                                     !.TT = Append(@, Total(prep, surg, clean)),
                                     !.k = @ + 1]
    /\ UNCHANGED <<globals, call, pc, ret, raised, world, uniform_calls, forced_rows>>

DurationsReturn ==
    /\ call = "generate_operation_durations" /\ pc = "durations_for"
    /\ frame.k >= frame.nb_operations
    /\ ret' = DurationsText(frame.TP, frame.TC, frame.TN, frame.TT)
    /\ pc' = "done"
    /\ UNCHANGED <<globals, call, frame, raised, world, uniform_calls, forced_rows>>

generate_operation_durations ==
    \/ DurationsNextOperation
    \/ DurationsReturn

-----------------------------------------------------------------------------
(* define_sets, create_instance and generate_multiple_instances.           *)
(*                                                                          *)
(* Inside create_instance the text a random generator returns keeps its    *)
(* statements and their order; the value of each is the term               *)
(* Sampled(generator, arguments, part), one outcome of that call.  A local *)
(* that holds a text or a matrix is the empty sequence until assigned.     *)

Sampled(generator, args, part) ==
    [generator |-> generator, args |-> args, part |-> part]

DefineSets(surgeons, rooms, operations) ==
    <<Statement("O", Range(operations)), Statement("C", Range(surgeons)),
      Statement("S", Range(rooms))>>

DefaultTmax == 45
SentinelM == 999999
DefaultTypes == 4

OutputFolders == {None, "generated_instances"}

Suffix == IF enable_setup_times THEN "_ST" ELSE ""

FileNameWithoutIndex(i) ==
    "o" \o ToString(nb_operations) \o "_c" \o ToString(nb_surgeons) \o "_s"
        \o ToString(nb_rooms) \o Suffix \o "_instance" \o ".txt"

FileName(i) ==
    "o" \o ToString(nb_operations) \o "_c" \o ToString(nb_surgeons) \o "_s"
        \o ToString(nb_rooms) \o Suffix \o "_instance_" \o ToString(i) \o ".txt"

PathJoin(folder, filename) == folder \o "/" \o filename

WriteFile(files, path, content) ==
    {f \in files : f.path # path} \cup {[path |-> path, content |-> content]}

CallMultipleInstances ==
    /\ call = "generate_multiple_instances"
    /\ nb_operations \in 0..MaxOperations
    /\ nb_surgeons \in 1..MaxSurgeons
    /\ nb_rooms \in 1..MaxRooms
    /\ enable_setup_times \in BOOLEAN
    /\ enable_surgeon_schedule = FALSE
    /\ all_rooms_available = FALSE
    /\ \E n \in 0..MaxInstances, output_folder \in OutputFolders :
          frame = [n |-> n, output_folder |-> output_folder, i |-> 0,
                   instance_data |-> <<>>, filename |-> None,
                   Tmax |-> DefaultTmax, instance |-> <<>>,
                   eligibility_matrix |-> <<>>, matrix_X |-> <<>>]
    /\ pc = "batch_start"

BatchRaise ==
    /\ call = "generate_multiple_instances" /\ pc = "batch_start"
    /\ frame.output_folder = None
    /\ raised' = "ValueError"
    /\ pc' = "done"
    /\ UNCHANGED <<globals, call, frame, ret, world, uniform_calls, forced_rows>>

MakedirsBeforeCheck ==
    /\ call = "generate_multiple_instances" /\ pc = "batch_start"
    /\ fs_dirs' = fs_dirs \cup {frame.output_folder}
    /\ io_log' = Append(io_log, <<"makedirs", frame.output_folder>>)
    /\ pc' = "batch_for"
    /\ UNCHANGED <<globals, call, frame, ret, raised, fs_files, uniform_calls,
                   forced_rows>>

BatchMakedirs ==
    /\ call = "generate_multiple_instances" /\ pc = "batch_start"
    /\ frame.output_folder # None
    /\ fs_dirs' = fs_dirs \cup {frame.output_folder}
    /\ io_log' = Append(io_log, <<"makedirs", frame.output_folder>>)
    /\ pc' = "batch_for"
    /\ UNCHANGED <<globals, call, frame, ret, raised, fs_files, uniform_calls,
                   forced_rows>>

BatchCallCreate ==
    /\ call = "generate_multiple_instances" /\ pc = "batch_for"
    /\ frame.i < frame.n
    /\ frame' = [frame EXCEPT !.instance = <<BlankLine>>]
    /\ io_log' = Append(io_log, <<"create_instance", frame.i>>)
    /\ pc' = "ci_sets"
    /\ UNCHANGED <<globals, call, ret, raised, fs_dirs, fs_files, uniform_calls,
                   forced_rows>>

Emit(text) == [frame EXCEPT !.instance = @ \o text]

CreateSets ==
    /\ call = "generate_multiple_instances" /\ pc = "ci_sets"
    /\ frame' = Emit(DefineSets(nb_surgeons, nb_rooms, nb_operations))
    /\ pc' = "ci_blank"
    /\ UNCHANGED <<globals, call, ret, raised, world, uniform_calls, forced_rows>>

SeparatorOmitted ==
    /\ call = "generate_multiple_instances" /\ pc = "ci_blank"
    /\ pc' = "ci_room"
    /\ UNCHANGED <<globals, call, frame, ret, raised, world, uniform_calls,
                   forced_rows>>

CreateSeparator ==
    /\ call = "generate_multiple_instances" /\ pc = "ci_blank"
    /\ frame' = Emit(<<BlankLine>>)
    /\ pc' = "ci_room"
    /\ UNCHANGED <<globals, call, ret, raised, world, uniform_calls, forced_rows>>

CreateRoomAvailability ==
    /\ call = "generate_multiple_instances" /\ pc = "ci_room"
    /\ frame' = Emit(RoomAvailabilityText(
                        Sampled("generate_room_availability",
                                <<nb_operations, nb_rooms>>, "A")))
    /\ pc' = "ci_eligibility"
    /\ UNCHANGED <<globals, call, ret, raised, world, uniform_calls, forced_rows>>

CreateSurgeonEligibility ==
    /\ call = "generate_multiple_instances" /\ pc = "ci_eligibility"
    /\ LET matrix == SurgeonEligibilityMatrix(nb_surgeons, nb_operations)
       IN  frame' = [frame EXCEPT !.eligibility_matrix = matrix,
                                  !.matrix_X = SurgeonEligibilityText(matrix)]
    /\ pc' = "ci_X"
    /\ UNCHANGED <<globals, call, ret, raised, world, uniform_calls, forced_rows>>

CreateX ==
    /\ call = "generate_multiple_instances" /\ pc = "ci_X"
    /\ frame' = Emit(frame.matrix_X)
    /\ pc' = "ci_windows"
    /\ UNCHANGED <<globals, call, ret, raised, world, uniform_calls, forced_rows>>

\* The value of statement `part' of the text generator(args) returns.
TimeWindowsCall(part) ==
    Sampled("generate_surgeon_time_windows", <<nb_surgeons>>, part)

DurationsCall(part) ==
    Sampled("generate_operation_durations", <<nb_operations>>, part)

TypesCall(eligibility_matrix, part) ==
    Sampled("generate_types_and_setup_times",
            <<nb_operations, eligibility_matrix, DefaultTypes>>, part)

CreateTimeWindows ==
    /\ call = "generate_multiple_instances" /\ pc = "ci_windows"
    /\ frame' = Emit(TimeWindowsText(TimeWindowsCall("F"), TimeWindowsCall("G")))
    /\ pc' = "ci_durations"
    /\ UNCHANGED <<globals, call, ret, raised, world, uniform_calls, forced_rows>>

CreateDurations ==
    /\ call = "generate_multiple_instances" /\ pc = "ci_durations"
    /\ frame' = Emit(DurationsText(DurationsCall("TP"), DurationsCall("TC"),
                                  DurationsCall("TN"), DurationsCall("TT")))
    /\ pc' = "ci_types"
    /\ UNCHANGED <<globals, call, ret, raised, world, uniform_calls, forced_rows>>

CreateTypes ==
    /\ call = "generate_multiple_instances" /\ pc = "ci_types"
    /\ frame' = Emit(TypesText(TypesCall(frame.eligibility_matrix, "T"),
                              TypesCall(frame.eligibility_matrix, "TD")))
    /\ pc' = "ci_Tmax"
    /\ UNCHANGED <<globals, call, ret, raised, world, uniform_calls, forced_rows>>

CreateTmax ==
    /\ call = "generate_multiple_instances" /\ pc = "ci_Tmax"
    /\ frame' = Emit(<<Statement("Tmax", frame.Tmax)>>)
    /\ pc' = "ci_M"
    /\ UNCHANGED <<globals, call, ret, raised, world, uniform_calls, forced_rows>>

CreateM ==
    /\ call = "generate_multiple_instances" /\ pc = "ci_M"
    /\ frame' = Emit(<<Statement("M", SentinelM)>>)
    /\ pc' = "ci_end"
    /\ UNCHANGED <<globals, call, ret, raised, world, uniform_calls, forced_rows>>

CreateTrailingBlank ==
    /\ call = "generate_multiple_instances" /\ pc = "ci_end"
    /\ frame' = Emit(<<BlankLine>>)
    /\ pc' = "ci_return"
    /\ UNCHANGED <<globals, call, ret, raised, world, uniform_calls, forced_rows>>

CreateReturn ==
    /\ call = "generate_multiple_instances" /\ pc = "ci_return"
    /\ frame' = [frame EXCEPT !.instance_data = frame.instance]
    /\ pc' = "batch_write"
    /\ UNCHANGED <<globals, call, ret, raised, world, uniform_calls, forced_rows>>

create_instance ==
    \/ CreateSets
    \/ CreateSeparator
    \/ CreateRoomAvailability
    \/ CreateSurgeonEligibility
    \/ CreateX
    \/ CreateTimeWindows
    \/ CreateDurations
    \/ CreateTypes
    \/ CreateTmax
    \/ CreateM
    \/ CreateTrailingBlank
    \/ CreateReturn

BatchWrite ==
    /\ call = "generate_multiple_instances" /\ pc = "batch_write"
    /\ LET filename == FileName(frame.i)
           path == PathJoin(frame.output_folder, filename)
       IN  /\ frame' = [frame EXCEPT !.filename = filename]
           /\ fs_files' = WriteFile(fs_files, path, frame.instance_data)
           /\ io_log' = Append(io_log, <<"write", path>>)
    /\ pc' = "batch_print"
    /\ UNCHANGED <<globals, call, ret, raised, fs_dirs, uniform_calls, forced_rows>>

BatchPrint ==
    /\ call = "generate_multiple_instances" /\ pc = "batch_print"
    /\ io_log' = Append(io_log, <<"print", frame.i>>)
    /\ frame' = [frame EXCEPT !.i = @ + 1]
    /\ pc' = "batch_for"
    /\ UNCHANGED <<globals, call, ret, raised, fs_dirs, fs_files, uniform_calls,
                   forced_rows>>

BatchReturn ==
    /\ call = "generate_multiple_instances" /\ pc = "batch_for"
    /\ frame.i >= frame.n
    /\ pc' = "done"
    /\ UNCHANGED <<globals, call, frame, ret, raised, world, uniform_calls,
                   forced_rows>>

generate_multiple_instances ==
    \/ BatchRaise
    \/ BatchMakedirs
    \/ BatchCallCreate
    \/ create_instance
    \/ BatchWrite
    \/ BatchPrint
    \/ BatchReturn

-----------------------------------------------------------------------------

Init ==
    /\ ret = None
    /\ raised = None
    /\ fs_files = {}
    /\ io_log = <<>>
    /\ uniform_calls = 0
    /\ forced_rows = {}
    /\ \/ CallRoomAvailability
       \/ CallSurgeonEligibility
       \/ CallSurgeonTimeWindows
       \/ CallTypesAndSetupTimes
       \/ CallOperationDurations
       \/ CallMultipleInstances
    /\ fs_dirs \in IF call = "generate_multiple_instances"
                   THEN SUBSET (OutputFolders \ {None})
                   ELSE {{}}

Next ==
    \/ generate_room_availability
    \/ generate_surgeon_eligibility
    \/ generate_surgeon_time_windows
    \/ generate_types_and_setup_times
    \/ generate_operation_durations
    \/ generate_multiple_instances

Spec == Init /\ [][Next]_vars

-----------------------------------------------------------------------------
(* Properties *)

IsBinary(list) == \A j \in DOMAIN list : list[j] \in {0, 1}

RoomRows == IF pc = "done" THEN ret[1].value ELSE frame.matrix

RoomCells ==
    Len(frame.matrix) * frame.nb_rooms
        + (IF pc = "room_for_r" THEN Len(frame.row) ELSE 0)

\* C1: generate_room_availability builds one row per operation with one
\* {0,1} entry per room; every row holds a 1; the last room took the forced
\* branch exactly when all the earlier entries of its row are 0, and is then
\* 1; every entry costs at most one random trial (no rejection, no retry).
C1_EveryRowHasARoom ==
    call = "generate_room_availability" =>
        /\ \A k \in DOMAIN RoomRows :
              /\ Len(RoomRows[k]) = frame.nb_rooms
              /\ IsBinary(RoomRows[k])
              /\ \E j \in DOMAIN RoomRows[k] : RoomRows[k][j] = 1
              /\ (k - 1 \in forced_rows)
                    <=> (\A j \in 1..(frame.nb_rooms - 1) : RoomRows[k][j] = 0)
              /\ (k - 1 \in forced_rows) => RoomRows[k][frame.nb_rooms] = 1
        /\ uniform_calls = RoomCells - Cardinality(forced_rows)
        /\ pc = "done" => Len(RoomRows) = frame.nb_operations

C1_Witness ==
    /\ call = "generate_room_availability" /\ pc = "done"
    /\ frame.nb_rooms >= 2
    /\ \E k \in DOMAIN RoomRows : k - 1 \in forced_rows
    /\ \E k \in DOMAIN RoomRows :
          /\ k - 1 \notin forced_rows
          /\ RoomRows[k][frame.nb_rooms] = 0

\* C4: with all_rooms_available set, every entry of the room matrix is 1.
C4_AllRoomsAvailable ==
    (call = "generate_room_availability" /\ all_rooms_available) =>
        /\ \A k \in DOMAIN RoomRows :
              \A j \in DOMAIN RoomRows[k] : RoomRows[k][j] = 1
        /\ pc = "room_for_r" =>
              \A j \in DOMAIN frame.row : frame.row[j] = 1
        /\ pc = "done" =>
              /\ Len(RoomRows) = frame.nb_operations
              /\ \A k \in DOMAIN RoomRows : Len(RoomRows[k]) = frame.nb_rooms

C4_Witness ==
    /\ call = "generate_room_availability" /\ pc = "done"
    /\ all_rooms_available
    /\ frame.nb_operations >= 2 /\ frame.nb_rooms >= 2
    /\ uniform_calls = frame.nb_operations * frame.nb_rooms

\* C2: generate_surgeon_eligibility returns a surgeons x operations matrix
\* of {0,1} whose columns each sum to 1, with X[c][o] = 1 iff
\* c = o mod nb_surgeons.
C2_RoundRobinEligibility ==
    (call = "generate_surgeon_eligibility" /\ pc = "done") =>
        LET X == ret[1]
        IN  /\ Len(X) = nb_surgeons
            /\ \A c \in DOMAIN X : Len(X[c]) = nb_operations /\ IsBinary(X[c])
            /\ \A o \in 0..(nb_operations - 1) :
                  /\ Sum([c \in DOMAIN X |-> X[c][o + 1]]) = 1
                  /\ \A c \in 0..(nb_surgeons - 1) :
                        (X[c + 1][o + 1] = 1) <=> (c = o % nb_surgeons)
            /\ ret[2] = <<[name |-> "X", value |-> X]>>

C2_Witness ==
    /\ call = "generate_surgeon_eligibility" /\ pc = "done"
    /\ nb_surgeons = 2 /\ nb_operations = 3
    /\ ret[1][1][3] = 1

SetupRows == IF pc = "done" THEN ret[2].value ELSE frame.TD

\* C3: the setup-time matrix TD has a zero diagonal under every random
\* outcome, and is zero everywhere when enable_setup_times is false.
C3_SetupDiagonalZero ==
    (call = "generate_types_and_setup_times" /\ pc \in {"types_build", "done"}) =>
        /\ \A o \in DOMAIN SetupRows :
              /\ Len(SetupRows[o]) = frame.nb_operations
              /\ SetupRows[o][o] = 0
              /\ ~enable_setup_times =>
                    \A o2 \in DOMAIN SetupRows[o] : SetupRows[o][o2] = 0
        /\ pc = "done" => Len(SetupRows) = frame.nb_operations

C3_Witness ==
    /\ call = "generate_types_and_setup_times" /\ pc = "done"
    /\ enable_setup_times
    /\ frame.nb_operations >= 2
    /\ \E o1, o2 \in DOMAIN SetupRows : SetupRows[o1][o2] > 0

TypeOfOperation(o) == frame.type_by_surgeon[(o % nb_surgeons) + 1]

\* C10: fed with the round-robin matrix, T[o] is one-hot at the type drawn
\* for surgeon o mod nb_surgeons, TD[o1][o2] is the transition time of the
\* two operations' types, two operations of the same surgeon have setup
\* time 0 in both directions, and with one surgeon TD is entirely 0.
C10_SetupFollowsSurgeonTypes ==
    (call = "generate_types_and_setup_times" /\ pc = "done") =>
        LET T == ret[1].value
            TD == ret[2].value
            ops == 0..(frame.nb_operations - 1)
        IN  /\ Len(T) = frame.nb_operations
            /\ \A o \in ops :
                  /\ Len(T[o + 1]) = frame.nb_types
                  /\ \A t \in 0..(frame.nb_types - 1) :
                        T[o + 1][t + 1] = IF t = TypeOfOperation(o) THEN 1 ELSE 0
            /\ \A o1, o2 \in ops :
                  /\ TD[o1 + 1][o2 + 1] =
                        frame.type_transition_time[TypeOfOperation(o1) + 1]
                                                  [TypeOfOperation(o2) + 1]
                  /\ (o1 % nb_surgeons = o2 % nb_surgeons) =>
                        TD[o1 + 1][o2 + 1] = 0 /\ TD[o2 + 1][o1 + 1] = 0
                  /\ nb_surgeons = 1 => TD[o1 + 1][o2 + 1] = 0

C10_Witness ==
    /\ call = "generate_types_and_setup_times" /\ pc = "done"
    /\ enable_setup_times
    /\ nb_surgeons = 1 /\ frame.nb_operations >= 2 /\ frame.nb_types >= 2
    /\ frame.type_transition_time[1][2] > 0

\* C5: generate_surgeon_time_windows gives every surgeon start 0 and end
\* the day length (800 if enable_surgeon_schedule, else 10000), so
\* start < end; the shift drawn is always the full day.
C5_FullDayWindows ==
    call = "generate_surgeon_time_windows" =>
        LET F == IF pc = "done" THEN ret[1].value ELSE frame.F
            G == IF pc = "done" THEN ret[2].value ELSE frame.G
        IN  /\ Len(F) = frame.k /\ Len(G) = frame.k
            /\ pc = "done" => frame.k = nb_surgeons
            /\ \A c \in DOMAIN F :
                  /\ F[c] = 0
                  /\ G[c] = IF enable_surgeon_schedule THEN 800 ELSE 10000
                  /\ F[c] < G[c]
            /\ \A c \in DOMAIN frame.shift_types :
                  frame.shift_types[c] \notin {0, 1}

C5_Witness ==
    /\ call = "generate_surgeon_time_windows" /\ pc = "done"
    /\ enable_surgeon_schedule
    /\ Len(ret[2].value) = 2

\* C6: the four duration vectors have one entry per operation, with
\* TT[i] = TP[i] + TC[i] + TN[i], TP[i] in 5..30, TN[i] in 10..20, TC[i] >= 1.
C6_TotalIsSumOfParts ==
    call = "generate_operation_durations" =>
        LET out == IF pc = "done"
                   THEN [TP |-> ret[1].value, TC |-> ret[2].value,
                         TN |-> ret[3].value, TT |-> ret[4].value]
                   ELSE frame
        IN  /\ Len(out.TP) = frame.k /\ Len(out.TC) = frame.k
            /\ Len(out.TN) = frame.k /\ Len(out.TT) = frame.k
            /\ pc = "done" => frame.k = frame.nb_operations
            /\ \A i \in 1..frame.k :
                  /\ out.TT[i] = out.TP[i] + out.TC[i] + out.TN[i]
                  /\ out.TP[i] >= 5 /\ out.TP[i] <= 30
                  /\ out.TN[i] >= 10 /\ out.TN[i] <= 20
                  /\ out.TC[i] >= 1

C6_Witness ==
    /\ call = "generate_operation_durations" /\ pc = "done"
    /\ frame.nb_operations >= 1
    /\ ret[1].value[1] = 30 /\ ret[2].value[1] = 2 /\ ret[3].value[1] = 10
    /\ ret[4].value[1] = 42

StatementOrder ==
    <<"O", "C", "S", "A", "X", "F", "G", "TP", "TC", "TN", "TT", "T", "TD",
      "Tmax", "M">>

IsStatementName(name) == name # ""

IsPrefix(s, t) == Len(s) <= Len(t) /\ \A k \in DOMAIN s : s[k] = t[k]

\* C7: create_instance emits each statement once, in the order O, C, S,
\* blank line, A, X, F, G, TP, TC, TN, TT, T, TD, Tmax, M, blank line, and
\* the matrix written as X is the one passed to the specialty generator.
C7_StatementOrder ==
    (call = "generate_multiple_instances" /\ frame.instance # <<>>) =>
        LET text == frame.instance
            named == SelectSeq(Names(text), IsStatementName)
        IN  /\ IsPrefix(named, StatementOrder)
            /\ \A k \in DOMAIN text :
                  /\ text[k].name = "A" => text[k - 1] = BlankLine
                                           /\ text[k - 2].name = "S"
                  /\ text[k].name = "T" =>
                        \E j \in 1..(k - 1) :
                           /\ text[j].name = "X"
                           /\ text[j].value = text[k].value.args[2]
                           /\ text[j].value = text[k + 1].value.args[2]
            /\ pc \in {"ci_return", "batch_write"} =>
                  /\ named = StatementOrder
                  /\ text[Len(text)] = BlankLine
                  /\ text[Len(text) - 1].name = "M"
            /\ frame.instance_data # <<>> =>
                  /\ SelectSeq(Names(frame.instance_data), IsStatementName)
                        = StatementOrder
                  /\ frame.instance_data[Len(frame.instance_data)] = BlankLine

C7_Witness ==
    /\ call = "generate_multiple_instances" /\ pc = "batch_write"
    /\ nb_operations >= 2 /\ nb_surgeons = 2
    /\ Len(frame.instance_data) = 18

\* C8: with no output folder generate_multiple_instances raises ValueError
\* before anything else: no makedirs, no create_instance, no write, for
\* every n.
C8_NoFolderFailsFast ==
    (call = "generate_multiple_instances" /\ frame.output_folder = None) =>
        /\ pc \in {"batch_start", "done"}
        /\ pc = "done" => raised = "ValueError"
        /\ io_log = <<>>
        /\ fs_files = {}
        /\ frame.instance = <<>> /\ frame.instance_data = <<>>

C8_Witness ==
    /\ call = "generate_multiple_instances" /\ pc = "done"
    /\ raised = "ValueError"
    /\ frame.n = 2
    /\ fs_dirs = {}

IsWrite(entry) == entry[1] = "write"

ExpectedPath(i) ==
    "generated_instances/o" \o ToString(nb_operations)
        \o "_c" \o ToString(nb_surgeons) \o "_s" \o ToString(nb_rooms)
        \o (IF enable_setup_times THEN "_ST_instance_" ELSE "_instance_")
        \o ToString(i) \o ".txt"

\* C9: a batch of n with an output folder runs n create-then-write steps in
\* index order; the i-th writes a freshly created instance to the file named
\* by the counts, the _ST suffix iff setup times are enabled, and i; the
\* names are pairwise distinct, so no write replaces a file of the batch.
C9_BatchWritesDistinctFiles ==
    (call = "generate_multiple_instances" /\ frame.output_folder # None) =>
        LET writes == SelectSeq(io_log, IsWrite)
        IN  /\ Cardinality(fs_files) = Len(writes)
            /\ \A k \in DOMAIN writes : writes[k][2] = ExpectedPath(k - 1)
            /\ \A j, k \in DOMAIN writes : j # k => writes[j][2] # writes[k][2]
            /\ \A k \in DOMAIN writes :
                  /\ io_log[3 * k - 1] = <<"create_instance", k - 1>>
                  /\ io_log[3 * k] = writes[k]
            /\ \A f \in fs_files : Len(f.content) = 18
            /\ pc = "done" =>
                  /\ raised = None
                  /\ Len(writes) = frame.n
                  /\ Len(io_log) = 1 + 3 * frame.n

C9_Witness ==
    /\ call = "generate_multiple_instances" /\ pc = "done"
    /\ frame.n = 2 /\ enable_setup_times
    /\ Cardinality(fs_files) = 2

====
